---- MODULE Spec2Model ----
(***************************************************************************)
(* Model of vibe-translate: the sentence context resolver of content.js    *)
(* (splitIntoSentences, findContextSentences), the request building and    *)
(* the translation flow of background.js, the popup of content.js and the  *)
(* provider select of popup/popup.js.                                      *)
(*                                                                         *)
(* A JavaScript string is a sequence of one-character strings.  Indices    *)
(* are kept 0-based as in the source: the character at JS index i of s is  *)
(* s[i+1].                                                                 *)
(***************************************************************************)
EXTENDS Integers, Sequences, FiniteSets, TLC

VARIABLES
    pc,               \* "idle" before a call, "segmented" / "done" after it
    surroundingText,  \* the text block handed to the resolver (or NonString)
    selectedText,     \* the selection handed to findContextSentences
    sentences,        \* local `sentences` of findContextSentences
    selectedIndex,    \* local `selectedIndex` of findContextSentences (-1: none)
    stage,            \* which part of findContextSentences fixed selectedIndex
    context,          \* the record returned by findContextSentences
    \* translateWithLLM, lines 73-80: building the user message
    buildPc,          \* "idle" before the message is built, "built" after
    buildTemplate,    \* settings.userMessage (Null: not stored)
    buildContext,     \* the context object handed to translateWithLLM
    userMessage,      \* local `userMessage` after the three replacements
    \* background.js: the translation flow of the service worker and the tab
    settings,         \* chrome.storage.local as read by translateWithLLM
    clicks,           \* one record per run of the onClicked listener
    tabInbox,         \* showTranslationResult messages on their way to the tab
    shown,            \* what the popup of the tab displays
    \* popup/popup.js: the settings form
    formPc,           \* "parsed" until loadSettings has run, then "loaded"
    providerSelect,   \* providerSelect.value
    baseUrlInput,     \* baseUrlInput.value
    modelInput,       \* modelInput.value
    placeholders,     \* baseUrlInput.placeholder and modelInput.placeholder
    formEvent,        \* history: the last thing that happened to the form
    formBefore,       \* history: the fields right before that
    formTyped,        \* history: the fields after the last load or keystroke
    \* content.js: showTranslationPopup and the page it works on
    pageElements,     \* the popup elements created so far, in creation order
    pageTimers,       \* elements whose setTimeout(..., 100) has not fired yet
    pageListeners,    \* elements whose closePopup is registered on document
    pageLast,         \* history: the last showTranslationResult message
    pageFirings,      \* history: for each closePopup that ran its removal, the
                      \* listener, the element it removed and the popup that
                      \* was displayed at that moment (0: none)
    \* background.js: two runs of translateWithLLM side by side, on contexts
    \* that differ in selectedSentence only
    pairPc,           \* per run: "start", "requested" (request built), "sent"
    pairSettings,     \* the stored settings, the same for both runs
    pairContexts,     \* per run: the context object it was called with
    pairRequests,     \* per run: the system prompt and user message it built
    pairResults       \* per run: the showTranslationResult message it sent

resolverVars == <<pc, surroundingText, selectedText, sentences, selectedIndex, stage, context>>
messageVars == <<buildPc, buildTemplate, buildContext, userMessage>>
workerVars == <<settings, clicks, tabInbox, shown>>
formVars == <<formPc, providerSelect, baseUrlInput, modelInput, placeholders,
              formEvent, formBefore, formTyped>>
pageVars == <<pageElements, pageTimers, pageListeners, pageLast, pageFirings>>
pairVars == <<pairPc, pairSettings, pairContexts, pairRequests, pairResults>>
vars == <<resolverVars, messageVars, workerVars, formVars, pageVars, pairVars>>
otherThanResolver == <<messageVars, workerVars, formVars, pageVars, pairVars>>
otherThanMessage == <<resolverVars, workerVars, formVars, pageVars, pairVars>>
otherThanWorker == <<resolverVars, messageVars, formVars, pageVars, pairVars>>
otherThanForm == <<resolverVars, messageVars, workerVars, pageVars, pairVars>>
otherThanPage == <<resolverVars, messageVars, workerVars, formVars, pairVars>>
otherThanPair == <<resolverVars, messageVars, workerVars, formVars, pageVars>>

(***************************************************************************)
(* Values that are not character strings.                                  *)
(***************************************************************************)
Null == <<"<null>">>
NonString == <<"<non-string>">>

(***************************************************************************)
(* Characters.                                                             *)
(***************************************************************************)
UPPER == <<"A","B","C","D","E","F","G","H","I","J","K","L","M",
           "N","O","P","Q","R","S","T","U","V","W","X","Y","Z">>
LOWER == <<"a","b","c","d","e","f","g","h","i","j","k","l","m",
           "n","o","p","q","r","s","t","u","v","w","x","y","z">>
DIGITS == {"0","1","2","3","4","5","6","7","8","9"}

Range(f) == { f[k] : k \in DOMAIN f }
UpperLetters == Range(UPPER)
LowerLetters == Range(LOWER)
LowerOf == [c \in UpperLetters |-> LOWER[CHOOSE k \in DOMAIN UPPER : UPPER[k] = c]]
UpperOf == [c \in LowerLetters |-> UPPER[CHOOSE k \in DOMAIN LOWER : LOWER[k] = c]]

\* \s
IsSpace(c) == c \in {" ", "\t"}
\* [A-Z]
IsUpper(c) == c \in UpperLetters
\* \d
IsDigit(c) == c \in DIGITS
\* [A-Za-z]
IsAlpha(c) == c \in UpperLetters \/ c \in LowerLetters

toLowerCase(s) == [k \in DOMAIN s |-> IF s[k] \in UpperLetters THEN LowerOf[s[k]] ELSE s[k]]
toUpperCase(s) == [k \in DOMAIN s |-> IF s[k] \in LowerLetters THEN UpperOf[s[k]] ELSE s[k]]

Min(a, b) == IF a < b THEN a ELSE b
Max(a, b) == IF a > b THEN a ELSE b

(***************************************************************************)
(* String primitives of the JavaScript runtime used by content.js.         *)
(***************************************************************************)
\* s.slice(a, b)
slice(s, a, b) ==
    LET from == IF a < 0 THEN Max(Len(s) + a, 0) ELSE Min(a, Len(s))
        to   == IF b < 0 THEN Max(Len(s) + b, 0) ELSE Min(b, Len(s))
    IN  SubSeq(s, from + 1, to)

\* s.trim(): from the first to the last non-whitespace character
trim(s) ==
    LET solid == { k \in DOMAIN s : ~IsSpace(s[k]) } IN
    IF solid = {} THEN <<>>
    ELSE SubSeq(s, CHOOSE k \in solid : \A j \in solid : k <= j,
                   CHOOSE k \in solid : \A j \in solid : k >= j)

\* s.replace(/\s+/g, ' '): every maximal whitespace run becomes one space
collapseWhitespace(s) ==
    LET positions == [k \in DOMAIN s |-> k]
        kept == SelectSeq(positions,
                          LAMBDA k : ~IsSpace(s[k]) \/ k = 1 \/ ~IsSpace(s[k - 1]))
    IN  [j \in DOMAIN kept |-> IF IsSpace(s[kept[j]]) THEN " " ELSE s[kept[j]]]

\* s.includes(t)
includes(s, t) ==
    \E k \in 0..(Len(s) - Len(t)) : SubSeq(s, k + 1, k + Len(t)) = t

\* s.split(/\s+/): the pieces between maximal whitespace runs
RECURSIVE splitWhitespace(_, _)
splitWhitespace(s, piece) ==
    IF s = <<>> THEN <<piece>>
    ELSE IF IsSpace(Head(s))
         THEN IF Len(s) > 1 /\ IsSpace(s[2])
              THEN splitWhitespace(Tail(s), piece)
              ELSE <<piece>> \o splitWhitespace(Tail(s), <<>>)
         ELSE splitWhitespace(Tail(s), Append(piece, Head(s)))

(***************************************************************************)
(* content.js: ABBREVIATIONS                                               *)
(***************************************************************************)
ABBREVIATIONS == {
    <<"M","r">>, <<"M","r","s">>, <<"M","s">>, <<"D","r">>, <<"P","r","o","f">>, <<"S","r">>,
    <<"J","r">>, <<"v","s">>, <<"e","t","c">>, <<"v","i","z">>, <<"a","l">>, <<"e","g">>,
    <<"i","e">>, <<"c","f">>, <<"a","p","p","r","o","x">>, <<"a","p","p","t">>,
    <<"a","p","t">>, <<"d","e","p","t">>, <<"e","s","t">>, <<"m","i","n">>, <<"m","a","x">>,
    <<"m","i","s","c">>, <<"n","o">>, <<"n","o","s">>, <<"v","o","l">>, <<"v","o","l","s">>,
    <<"r","e","v">>, <<"p","p">>, <<"p","g">>, <<"J","a","n">>, <<"F","e","b">>,
    <<"M","a","r">>, <<"A","p","r">>, <<"J","u","n">>, <<"J","u","l">>, <<"A","u","g">>,
    <<"S","e","p">>, <<"S","e","p","t">>, <<"O","c","t">>, <<"N","o","v">>, <<"D","e","c">>,
    <<"M","o","n">>, <<"T","u","e">>, <<"W","e","d">>, <<"T","h","u">>, <<"F","r","i">>,
    <<"S","a","t">>, <<"S","u","n">>, <<"I","n","c">>, <<"C","o","r","p">>, <<"L","t","d">>,
    <<"C","o">>, <<"A","v","e">>, <<"B","l","v","d">>, <<"S","t">>, <<"R","d">>, <<"U">>,
    <<"S">>, <<"A">>, <<"E">>, <<"G">>, <<"I">> }

\* abbr.toLowerCase() and abbr.toUpperCase() for the entries of the list
AbbreviationsLowerCase == { toLowerCase(abbr) : abbr \in ABBREVIATIONS }
AbbreviationsUpperCase == { toUpperCase(abbr) : abbr \in ABBREVIATIONS }

(***************************************************************************)
(* content.js: splitIntoSentences                                          *)
(***************************************************************************)
\* remaining.match(/^\s+([A-Z])/)
lookAhead(remaining) ==
    \E k \in 1..(Len(remaining) - 1) :
        /\ \A j \in 1..k : IsSpace(remaining[j])
        /\ IsUpper(remaining[k + 1])

\* beforePeriod.split(/\s+/).pop() || ''
lastWordOf(beforePeriod) ==
    LET parts == splitWhitespace(beforePeriod, <<>>) IN parts[Len(parts)]

\* variant: the three characters in front of the mark are compared
isEllipsis_beforeMark(text, i) == slice(text, i - 3, i) = <<".", ".", ".">>

\* text.slice(i - 2, i + 1) === '...'
isEllipsis(text, i) == slice(text, i - 2, i + 1) = <<".", ".", ".">>

\* /\d$/.test(beforePeriod) && /^\d/.test(remaining.trim())
isDecimal(beforePeriod, remaining) ==
    /\ beforePeriod # <<>> /\ IsDigit(beforePeriod[Len(beforePeriod)])
    /\ trim(remaining) # <<>> /\ IsDigit(Head(trim(remaining)))

\* variant: the comparison is case-sensitive
isAbbreviation_caseSensitive(lastWord) == lastWord \in ABBREVIATIONS

\* ABBREVIATIONS.some(abbr => ...)
isAbbreviation(lastWord) ==
    \/ toLowerCase(lastWord) \in AbbreviationsLowerCase
    \/ toUpperCase(lastWord) \in AbbreviationsUpperCase

\* lastWord.length === 1 && /[A-Za-z]/.test(lastWord)
isSingleLetterAbbr(lastWord) == Len(lastWord) = 1 /\ IsAlpha(lastWord[1])

\* variant: the skip also swallows the upper-case letter after the whitespace
RECURSIVE skipWhitespace_andLetter(_, _)
skipWhitespace_andLetter(text, i) ==
    IF i < Len(text) /\ (IsSpace(text[i + 1]) \/ IsUpper(text[i + 1]))
    THEN skipWhitespace_andLetter(text, i + 1) ELSE i

\* the inner `while (i < text.length && /\s/.test(text[i])) i++`
RECURSIVE skipWhitespace(_, _)
skipWhitespace(text, i) ==
    IF i < Len(text) /\ IsSpace(text[i + 1]) THEN skipWhitespace(text, i + 1) ELSE i

\* variant: the ?/! branch does not consult the abbreviation list
acceptMark_noAbbreviation(text, i, currentSentence) ==
    LET char         == text[i + 1]
        remaining    == slice(text, i + 1, Len(text))
        beforePeriod == slice(currentSentence, 0, -1)
        lastWord     == lastWordOf(beforePeriod)
    IN  /\ ~isEllipsis(text, i)
        /\ ~isDecimal(beforePeriod, remaining)
        /\ ~isSingleLetterAbbr(lastWord)
        /\ char # "."

\* the first branch of the boundary test: `... && char !== '.'` (for ? and !)
acceptMark(text, i, currentSentence) ==
    LET char         == text[i + 1]
        remaining    == slice(text, i + 1, Len(text))
        beforePeriod == slice(currentSentence, 0, -1)
        lastWord     == lastWordOf(beforePeriod)
    IN  /\ ~isEllipsis(text, i)
        /\ ~isDecimal(beforePeriod, remaining)
        /\ ~isAbbreviation(lastWord)
        /\ ~isSingleLetterAbbr(lastWord)
        /\ char # "."

\* the second branch of the boundary test (the period)
acceptPeriod(text, i, currentSentence) ==
    LET remaining    == slice(text, i + 1, Len(text))
        beforePeriod == slice(currentSentence, 0, -1)
        lastWord     == lastWordOf(beforePeriod)
    IN  /\ ~isEllipsis(text, i)
        /\ ~isDecimal(beforePeriod, remaining)
        /\ ~isAbbreviation(lastWord)
        /\ ~isSingleLetterAbbr(lastWord)

\* the `while (i < text.length)` loop; returns the final locals
RECURSIVE scan(_, _, _, _)
scan(text, i, currentSentence, out) ==
    IF ~(i < Len(text)) THEN [currentSentence |-> currentSentence, sentences |-> out]
    ELSE
      LET char  == text[i + 1]
          cur   == Append(currentSentence, char)
          split == scan(text, skipWhitespace(text, i + 1), <<>>, Append(out, trim(cur)))
          next  == scan(text, i + 1, cur, out)
      IN  IF char = "." \/ char = "?" \/ char = "!"
          THEN IF lookAhead(slice(text, i + 1, Len(text)))
               THEN IF acceptMark(text, i, cur) THEN split
                    ELSE IF acceptPeriod(text, i, cur) THEN split
                    ELSE next
               ELSE next
          ELSE next

\* variant: the text left in the buffer at the end of the scan is not pushed
splitIntoSentences_dropsRemainder(text) ==
    IF text = <<>> \/ text = NonString THEN <<>>
    ELSE
      LET normalized == trim(collapseWhitespace(text)) IN
      IF normalized = <<>> THEN <<>>
      ELSE SelectSeq(scan(normalized, 0, <<>>, <<>>).sentences, LAMBDA s : Len(s) > 0)

\* variant: the whitespace runs of the text are not collapsed before the scan
splitIntoSentences_noCollapse(text) ==
    IF text = <<>> \/ text = NonString THEN <<>>
    ELSE
      LET normalized == trim(text) IN
      IF normalized = <<>> THEN <<>>
      ELSE
        LET end == scan(normalized, 0, <<>>, <<>>)
            all == IF trim(end.currentSentence) # <<>>
                   THEN Append(end.sentences, trim(end.currentSentence))
                   ELSE end.sentences
        IN  SelectSeq(all, LAMBDA s : Len(s) > 0)

splitIntoSentences(text) ==
    IF text = <<>> \/ text = NonString THEN <<>>
    ELSE
      LET normalized == trim(collapseWhitespace(text)) IN
      IF normalized = <<>> THEN <<>>
      ELSE
        LET end == scan(normalized, 0, <<>>, <<>>)
            all == IF trim(end.currentSentence) # <<>>
                   THEN Append(end.sentences, trim(end.currentSentence))
                   ELSE end.sentences
        IN  SelectSeq(all, LAMBDA s : Len(s) > 0)

(***************************************************************************)
(* content.js: findContextSentences                                        *)
(***************************************************************************)
\* variant: the selection is trimmed but its whitespace runs are kept
normalizeSelection_trimOnly(selText) == trim(selText)

\* selectedText.replace(/\s+/g, ' ').trim()
normalizeSelection(selText) == trim(collapseWhitespace(selText))

\* variant: a selection that spans a whole sentence is not recognised
primaryMatch_noSpanning(sentence, normalizedSelection) ==
    \/ includes(sentence, normalizedSelection)
    \/ includes(collapseWhitespace(sentence), normalizedSelection)

\* the condition of the first `for` loop
primaryMatch(sentence, normalizedSelection) ==
    \/ includes(sentence, normalizedSelection)
    \/ includes(normalizedSelection, sentence)
    \/ includes(collapseWhitespace(sentence), normalizedSelection)

\* variant: the loop has no `break`, the last matching sentence wins
primaryLoop_lastMatch(sents, normalizedSelection, i) ==
    LET hits == { j \in i..(Len(sents) - 1) : primaryMatch(sents[j + 1], normalizedSelection) }
    IN  IF hits = {} THEN -1 ELSE CHOOSE j \in hits : \A h \in hits : j >= h

\* the first `for` loop: index of the first matching sentence, or -1
RECURSIVE primaryLoop(_, _, _)
primaryLoop(sents, normalizedSelection, i) ==
    IF ~(i < Len(sents)) THEN -1
    ELSE IF primaryMatch(sents[i + 1], normalizedSelection) THEN i
    ELSE primaryLoop(sents, normalizedSelection, i + 1)

\* variant: only the first word of the selection is looked for
fuzzyMatch_firstWordOnly(sentence, firstWord, lastWord) == includes(sentence, firstWord)

\* the condition of the second `for` loop
fuzzyMatch(sentence, firstWord, lastWord) ==
    includes(sentence, firstWord) \/ includes(sentence, lastWord)

\* the second `for` loop
RECURSIVE fuzzyLoop(_, _, _, _)
fuzzyLoop(sents, firstWord, lastWord, i) ==
    IF ~(i < Len(sents)) THEN -1
    ELSE IF fuzzyMatch(sents[i + 1], firstWord, lastWord) THEN i
    ELSE fuzzyLoop(sents, firstWord, lastWord, i + 1)

\* variant: a selection found nowhere is attributed to the first sentence
fuzzyIndex_firstOnMiss(sents, normalizedSelection) ==
    LET selectionWords == splitWhitespace(normalizedSelection, <<>>)
        found == fuzzyLoop(sents, selectionWords[1], selectionWords[Len(selectionWords)], 0)
    IN  IF found = -1 THEN 0 ELSE found

\* `if (selectedIndex === -1) { ... }`
fuzzyIndex(sents, normalizedSelection) ==
    LET selectionWords == splitWhitespace(normalizedSelection, <<>>) IN
    IF Len(selectionWords) > 0
    THEN fuzzyLoop(sents, selectionWords[1], selectionWords[Len(selectionWords)], 0)
    ELSE -1

\* variant: previousSentence is read at selectedIndex instead of selectedIndex - 1
contextOf_previousAtIndex(sents, index, selText) ==
    [ previousSentence |-> IF index > 0 THEN sents[index + 1] ELSE Null,
      selectedSentence |-> IF index >= 0 THEN sents[index + 1] ELSE selText,
      nextSentence     |-> IF index >= 0 /\ index < Len(sents) - 1
                           THEN sents[index + 2] ELSE Null ]

\* the returned object
contextOf(sents, index, selText) ==
    [ previousSentence |-> IF index > 0 THEN sents[index] ELSE Null,
      selectedSentence |-> IF index >= 0 THEN sents[index + 1] ELSE selText,
      nextSentence     |-> IF index >= 0 /\ index < Len(sents) - 1
                           THEN sents[index + 2] ELSE Null ]

\* findContextSentences with its locals: sentences, selectedIndex, the part
\* of the function that fixed selectedIndex, and the returned object
findContextSentences(selText, surrounding) ==
    LET sents == splitIntoSentences(surrounding) IN
    IF Len(sents) = 0
    THEN [ sentences |-> sents, selectedIndex |-> -1, stage |-> "empty",
           context |-> [ previousSentence |-> Null, selectedSentence |-> selText,
                         nextSentence |-> Null ] ]
    ELSE
      LET normalizedSelection == normalizeSelection(selText)
          first == primaryLoop(sents, normalizedSelection, 0)
          index == IF first = -1 THEN fuzzyIndex(sents, normalizedSelection) ELSE first
      IN  [ sentences |-> sents, selectedIndex |-> index,
            stage |-> IF first # -1 THEN "primary"
                      ELSE IF index # -1 THEN "fuzzy" ELSE "none",
            context |-> contextOf(sents, index, selText) ]

(***************************************************************************)
(* Inputs.                                                                 *)
(***************************************************************************)
MaxChunks == 4
MaxPieces == 2
MaxSegPieces == 3

\* all concatenations of at most n elements of the set `parts`
RECURSIVE Concats(_, _)
Concats(parts, n) ==
    IF n = 0 THEN { <<>> }
    ELSE LET shorter == Concats(parts, n - 1)
         IN  shorter \cup { t \o p : t \in shorter, p \in parts }

\* words and marks the segmenter tells apart
Chunks == { <<"O","k">>, <<"a">>, <<"N","o">>, <<"3">>,
            <<".">>, <<".",".",".">>, <<"?">>, <<"!">>, <<" ">> }

\* sentence-sized pieces: a plain sentence, one that contains it, one with an
\* irregular whitespace run, and one that ends in a listed abbreviation
Pieces == { <<"O","k","."," ">>,
            <<"G","o"," ","O","k","."," ">>,
            <<"H","i","\t"," ","g","o","?"," ">>,
            <<"N","o","."," ">> }

ExDr    == <<"D","r","."," ","S","m","i","t","h"," ","w","e","n","t"," ","h","o","m","e",".",
             " ","H","e"," ","l","e","f","t"," ","e","a","r","l","y",".">>
ExUS    == <<"H","e"," ","l","i","v","e","s"," ","i","n"," ","t","h","e"," ","U",".","S",".",
             " ","G","o","v","e","r","n","m","e","n","t"," ","p","a","y","s",".">>
ExWait  == <<"W","a","i","t",".",".","."," ","W","h","a","t"," ","n","o","w","?">>
ExCat   == <<"T","h","e"," ","d","o","g"," ","r","a","n","."," ","T","h","e"," ","c","a","t",
             " ","s","a","t","."," ","T","h","e"," ","b","i","r","d"," ","f","l","e","w",".">>
ExAlpha == <<"A","l","p","h","a","."," ","B","e","t","a","."," ","G","a","m","m","a",".">>
ExPi    == <<"P","i"," ","i","s"," ","3",".","1","4"," ","t","o","d","a","y","."," ",
             "R","e","a","l","l","y",".">>
Examples == { ExDr, ExUS, ExWait, ExCat, ExAlpha, ExPi }

Degenerate == { <<>>, <<" ">>, <<"\t", " ">>, NonString }

LocTexts == Concats(Pieces, MaxPieces) \cup Examples \cup Degenerate
SegTexts == Concats(Chunks, MaxChunks) \cup Concats(Pieces, MaxSegPieces) \cup LocTexts

ExNonsense == <<"n","o","n","s","e","n","s","e","-","x","y","z">>
Queries == { <<>>, <<"z">>, ExNonsense, <<"z"," ","O","k",".">>, <<"g","o","?"," ","\t","z">> }

Substrings(t) ==
    IF t = NonString THEN { }
    ELSE { SubSeq(t, a, b) : a \in 1..(Len(t) + 1), b \in 0..Len(t) }

Selections(t) == Substrings(t) \cup Queries

(***************************************************************************)
(* State machine.                                                          *)
(***************************************************************************)
NoContext == [ previousSentence |-> Null, selectedSentence |-> <<>>, nextSentence |-> Null ]

\* the parts of the extension that take no step in a specification
ResolverOff ==
    /\ pc = "off" /\ surroundingText = <<>> /\ selectedText = <<>> /\ sentences = <<>>
    /\ selectedIndex = -1 /\ stage = "idle" /\ context = NoContext
MessageOff ==
    /\ buildPc = "off" /\ buildTemplate = Null /\ userMessage = <<>>
    /\ buildContext = [ selectedText |-> <<>>, previousSentence |-> Null,
                        selectedSentence |-> <<>>, nextSentence |-> Null ]
NothingShown == [ state |-> "none", text |-> "", originalText |-> "", click |-> 0 ]
WorkerOff ==
    /\ settings = [ apiToken |-> "", providerType |-> "openai" ]
    /\ clicks = <<>> /\ tabInbox = <<>> /\ shown = NothingShown
NoFields == [ provider |-> "openai", baseUrl |-> "", model |-> "" ]
FormOff ==
    /\ formPc = "off" /\ providerSelect = "openai" /\ baseUrlInput = "" /\ modelInput = ""
    /\ placeholders = [ baseUrl |-> "", model |-> "" ]
    /\ formEvent = "none" /\ formBefore = NoFields /\ formTyped = NoFields
NoMessage == [loading |-> FALSE, error |-> "", translation |-> "", originalText |-> "", click |-> 0]
PageOff ==
    /\ pageElements = <<>> /\ pageTimers = {} /\ pageListeners = {}
    /\ pageLast = NoMessage /\ pageFirings = {}
PairOff ==
    /\ pairPc = <<>> /\ pairSettings = [ systemPrompt |-> "", userMessage |-> Null ]
    /\ pairContexts = <<>> /\ pairRequests = <<>> /\ pairResults = <<>>

InitWith(texts) ==
    /\ MessageOff /\ WorkerOff /\ FormOff /\ PageOff /\ PairOff
    /\ pc = "idle"
    /\ surroundingText \in texts
    /\ selectedText = <<>>
    /\ sentences = <<>>
    /\ selectedIndex = -1
    /\ stage = "idle"
    /\ context = NoContext

Init == InitWith(LocTexts)
InitSeg == InitWith(SegTexts)

\* a call of splitIntoSentences(surroundingText)
Segment ==
    /\ pc = "idle"
    /\ pc' = "segmented"
    /\ sentences' = splitIntoSentences(surroundingText)
    /\ UNCHANGED <<surroundingText, selectedText, selectedIndex, stage, context>>
    /\ UNCHANGED otherThanResolver

\* a call of findContextSentences(selText, surroundingText)
FindContext(selText) ==
    /\ pc = "idle"
    /\ \E r \in { findContextSentences(selText, surroundingText) } :
         /\ sentences' = r.sentences
         /\ selectedIndex' = r.selectedIndex
         /\ stage' = r.stage
         /\ context' = r.context
    /\ selectedText' = selText
    /\ pc' = "done"
    /\ UNCHANGED surroundingText
    /\ UNCHANGED otherThanResolver

Next == \E selText \in Selections(surroundingText) : FindContext(selText)
NextSeg == Segment

Spec == Init /\ [][Next]_vars
SpecSeg == InitSeg /\ [][NextSeg]_vars

TypeOK ==
    /\ pc \in {"off", "idle", "segmented", "done"}
    /\ selectedIndex \in -1..(Len(sentences) - 1)

(***************************************************************************)
(* Vocabulary of the properties, stated on the inputs and outputs only.    *)
(***************************************************************************)
Called == pc = "done"
Segmented == pc = "segmented"

\* the whitespace-collapsed, trimmed form of a string (empty for a non-string)
Norm(t) == IF t = NonString THEN <<>> ELSE trim(collapseWhitespace(t))

MinOf(S) == CHOOSE x \in S : \A y \in S : x <= y
MaxOf(S) == CHOOSE x \in S : \A y \in S : x >= y

\* 0-based indices of a sentence sequence
Indices(S) == 0..(Len(S) - 1)

\* a contains b as a substring
Contains(a, b) == \E k \in 1..(Len(a) - Len(b) + 1) : \A j \in 1..Len(b) : a[k + j - 1] = b[j]

\* the indices satisfying one of the three primary conditions for query q
PrimaryHits(S, q) ==
    { i \in Indices(S) : \/ Contains(S[i + 1], q)
                         \/ Contains(q, S[i + 1])
                         \/ Contains(Norm(S[i + 1]), q) }

\* first and last whitespace-delimited token of a normalized query
FirstToken(q) ==
    LET sp == { k \in DOMAIN q : IsSpace(q[k]) } IN
    IF sp = {} THEN q ELSE SubSeq(q, 1, MinOf(sp) - 1)
LastToken(q) ==
    LET sp == { k \in DOMAIN q : IsSpace(q[k]) } IN
    IF sp = {} THEN q ELSE SubSeq(q, MaxOf(sp) + 1, Len(q))

\* the indices whose sentence contains the first or the last token of q
TokenHits(S, q) ==
    { i \in Indices(S) : Contains(S[i + 1], FirstToken(q)) \/ Contains(S[i + 1], LastToken(q)) }

Degraded(selText) ==
    [ previousSentence |-> Null, selectedSentence |-> selText, nextSentence |-> Null ]

\* a and b are in the substring relation, one way or the other
Related(a, b) == Contains(a, b) \/ Contains(b, a)

(***************************************************************************)
(* The single segmentation rule of the design, stated on positions of the  *)
(* normalized text (0-based).                                              *)
(***************************************************************************)
\* the last whitespace-delimited token of text[0 .. i-1]
TokenBefore(text, i) ==
    LET sp == { k \in 1..i : IsSpace(text[k]) } IN
    SubSeq(text, (IF sp = {} THEN 0 ELSE MaxOf(sp)) + 1, i)

ListedIgnoringCase(token) ==
    \E abbr \in ABBREVIATIONS : toLowerCase(abbr) = toLowerCase(token)

\* position k (1-based) ends a whitespace run that starts right after i
RunAfter(text, i, k) == k >= i + 2 /\ k < Len(text) /\ \A j \in (i + 2)..k : IsSpace(text[j])

UniformBoundary(text, i) ==
    /\ text[i + 1] \in {".", "?", "!"}
    /\ \E k \in DOMAIN text : RunAfter(text, i, k) /\ IsUpper(text[k + 1])
    /\ ~(i >= 2 /\ text[i - 1] = "." /\ text[i] = "." /\ text[i + 1] = ".")
    /\ ~(/\ i >= 1 /\ IsDigit(text[i])
          /\ \E k \in DOMAIN text :
                RunAfter(text, i, k) /\ ~IsSpace(text[k + 1]) /\ IsDigit(text[k + 1]))
    /\ ~ListedIgnoringCase(TokenBefore(text, i))
    /\ ~(Len(TokenBefore(text, i)) = 1 /\ IsAlpha(TokenBefore(text, i)[1]))

UniformSegment(t) ==
    LET text == Norm(t)
        B == { i \in Indices(text) : UniformBoundary(text, i) }
        n == Cardinality(B)
        Nth(k) == CHOOSE b \in B : Cardinality({ x \in B : x < b }) = k - 1
        pieces == [k \in 1..(n + 1) |->
                     trim(SubSeq(text, IF k = 1 THEN 1 ELSE Nth(k - 1) + 2,
                                       IF k = n + 1 THEN Len(text) ELSE Nth(k) + 1))]
    IN  SelectSeq(pieces, LAMBDA s : s # <<>>)

(***************************************************************************)
(* Properties.                                                             *)
(***************************************************************************)
\* C1: when the selection is located at index idx of the segmentation, the
\* result is the sentence at idx with its two neighbours in the
\* segmentation; previous is none exactly at idx = 0 and next is none
\* exactly at the last index.
C1_Neighbours ==
    (Called /\ selectedIndex >= 0) =>
        LET S == splitIntoSentences(surroundingText)
            idx == selectedIndex
        IN  /\ idx \in Indices(S)
            /\ context.selectedSentence = S[idx + 1]
            /\ context.previousSentence = (IF idx > 0 THEN S[idx] ELSE Null)
            /\ context.nextSentence = (IF idx < Len(S) - 1 THEN S[idx + 2] ELSE Null)
            /\ (context.previousSentence = Null <=> idx = 0)
            /\ (context.nextSentence = Null <=> idx = Len(S) - 1)

C1_Witness ==
    /\ Called /\ Len(sentences) = 3 /\ selectedIndex = 1
    /\ selectedText # sentences[2]
    /\ context = [ previousSentence |-> sentences[1],
                   selectedSentence |-> sentences[2],
                   nextSentence     |-> sentences[3] ]

IsContext(c) ==
    /\ DOMAIN c = {"previousSentence", "selectedSentence", "nextSentence"}
    /\ c.selectedSentence # Null
    /\ \A f \in DOMAIN c : c[f] = Null \/ \A k \in DOMAIN c[f] : c[f][k] # Null[1]

\* C2: every call returns a Context, and when the segmentation is empty or
\* no sentence satisfies a primary condition or contains the first or last
\* token of the query, the result is the selection itself with no
\* neighbours.
C2_Degrades ==
    Called =>
        LET S == UniformSegment(surroundingText)
            q == Norm(selectedText)
        IN  /\ IsContext(context)
            /\ (S = <<>> \/ (PrimaryHits(S, q) = {} /\ TokenHits(S, q) = {}))
                   => context = Degraded(selectedText)

C2_Witness ==
    /\ Called /\ surroundingText = ExAlpha /\ selectedText = ExNonsense
    /\ Len(sentences) = 3 /\ stage = "none"
    /\ context = Degraded(ExNonsense)

\* C3: the two branches of the scan produce, for every input, the sentence
\* sequence of the single rule: a sentence ends at a '.', '?' or '!' exactly
\* when whitespace and an upper-case letter follow and none of the four
\* rejections (ellipsis, decimal, listed abbreviation, single letter) holds.
C3_UniformRule == Segmented => sentences = UniformSegment(surroundingText)

C3_Witness ==
    /\ Segmented /\ Len(sentences) = 3
    /\ sentences[1][Len(sentences[1])] = "?"
    /\ sentences[2][Len(sentences[2])] = "."

\* C4 as stated: locating the query S[i] returns i.
C4_RoundTripExact ==
    Called => \A i \in Indices(sentences) :
                 selectedText = sentences[i + 1] => selectedIndex = i

\* C4 (amended): locating the query S[i] returns the smallest index j whose
\* sentence contains S[i] or is contained in S[i]; j <= i, and j = i with the
\* neighbours S[i-1] and S[i+1] when no earlier sentence is in the substring
\* relation with S[i].
C4_RoundTripFirstRelated ==
    Called => \A i \in Indices(sentences) :
        selectedText = sentences[i + 1] =>
            LET S == sentences
                J == { j \in Indices(S) : Related(S[j + 1], S[i + 1]) }
            IN  /\ selectedIndex = MinOf(J)
                /\ selectedIndex <= i
                /\ (\A j \in 0..(i - 1) : ~Related(S[j + 1], S[i + 1])) =>
                      /\ selectedIndex = i
                      /\ context.selectedSentence = S[i + 1]
                      /\ context.previousSentence = (IF i > 0 THEN S[i] ELSE Null)
                      /\ context.nextSentence = (IF i < Len(S) - 1 THEN S[i + 2] ELSE Null)

C4_Witness ==
    /\ Called /\ Len(sentences) = 3
    /\ selectedText = sentences[3] /\ selectedIndex = 2
    /\ context.previousSentence = sentences[2] /\ context.nextSentence = Null

\* C5: the primary stage returns the smallest index satisfying one of the
\* three conditions for the normalized query, never a later one, and the
\* token stage decides only when no index satisfies any of them.
C5_FirstPrimaryMatch ==
    (Called /\ sentences # <<>>) =>
        LET hits == PrimaryHits(sentences, Norm(selectedText)) IN
        /\ hits # {} => (stage = "primary" /\ selectedIndex = MinOf(hits))
        /\ stage \in {"fuzzy", "none"} => hits = {}
        /\ stage = "primary" => hits # {}

C5_Witness ==
    /\ Called /\ stage = "primary" /\ selectedIndex = 0
    /\ Len(sentences) >= 2
    /\ Len(sentences[2]) > Len(sentences[1])
    /\ Contains(Norm(selectedText), sentences[1])
    /\ Contains(sentences[2], Norm(selectedText))
    /\ ~Contains(sentences[1], Norm(selectedText))

\* C6: when no sentence satisfies a primary condition, the result is the
\* smallest index whose sentence contains the first or the last token of the
\* normalized query, and not-found exactly when no sentence contains either.
C6_TokenFallback ==
    (Called /\ sentences # <<>> /\ PrimaryHits(sentences, Norm(selectedText)) = {}) =>
        LET hits == TokenHits(sentences, Norm(selectedText)) IN
        /\ hits # {} => selectedIndex = MinOf(hits)
        /\ hits = {} <=> selectedIndex = -1
        /\ hits = {} => context = Degraded(selectedText)

C6_Witness ==
    /\ Called /\ stage = "fuzzy" /\ selectedIndex = 1
    /\ Len(sentences) = 2
    /\ ~Contains(sentences[2], FirstToken(Norm(selectedText)))
    /\ Contains(sentences[2], LastToken(Norm(selectedText)))
    /\ ~Contains(sentences[1], LastToken(Norm(selectedText)))

\* C7 as stated: a query that is a sentence S[i], or a (non-empty) substring
\* of it, with added surrounding whitespace or widened internal spaces is
\* located at i.
C7_WhitespaceExact ==
    Called => \A i \in Indices(sentences) :
                 (Norm(selectedText) # <<>> /\ Contains(sentences[i + 1], Norm(selectedText)))
                     => selectedIndex = i

\* C7 (amended): such a query is always matched by the primary stage, at the
\* smallest index j whose sentence contains the normalized query or is
\* contained in it; j <= i, and j = i when no earlier sentence is in the
\* substring relation with the normalized query.
C7_WhitespaceFirstRelated ==
    Called => \A i \in Indices(sentences) :
        Contains(sentences[i + 1], Norm(selectedText)) =>
            LET S == sentences
                q == Norm(selectedText)
                J == { j \in Indices(S) : Related(S[j + 1], q) }
            IN  /\ stage = "primary"
                /\ selectedIndex = MinOf(J)
                /\ selectedIndex <= i
                /\ (\A j \in 0..(i - 1) : ~Related(S[j + 1], q)) => selectedIndex = i

C7_Witness ==
    /\ Called /\ selectedIndex = 1 /\ stage = "primary"
    /\ Contains(sentences[2], Norm(selectedText))
    /\ selectedText # <<>>
    /\ IsSpace(selectedText[1]) /\ IsSpace(selectedText[Len(selectedText)])
    /\ Len(selectedText) > Len(Norm(selectedText)) + 2

\* the token in front of the closing mark of a sentence
ClosingToken(sentence) == TokenBefore(sentence, Len(sentence) - 1)

ExDrFirst == SubSeq(ExDr, 1, 20)
ExDrSecond == SubSeq(ExDr, 22, 35)

\* C8: no sentence is ended at a mark whose preceding token is, ignoring
\* case, an entry of the abbreviation list; "Dr. Smith went home. He left
\* early." yields exactly its two sentences.
C8_AbbreviationNotSplit ==
    Segmented =>
        /\ \A k \in 1..(Len(sentences) - 1) : ~ListedIgnoringCase(ClosingToken(sentences[k]))
        /\ \A i \in Indices(Norm(surroundingText)) :
              ( /\ Norm(surroundingText)[i + 1] \in {".", "?", "!"}
                /\ ListedIgnoringCase(TokenBefore(Norm(surroundingText), i))
                /\ i + 1 < Len(Norm(surroundingText)) )
              => \E k \in DOMAIN sentences :
                    Contains(sentences[k], SubSeq(Norm(surroundingText), i + 1, i + 2))
        /\ surroundingText = ExDr => sentences = <<ExDrFirst, ExDrSecond>>

C8_Witness ==
    /\ Segmented /\ Len(sentences) = 1
    /\ \E i \in Indices(Norm(surroundingText)) :
          /\ Norm(surroundingText)[i + 1] = "?"
          /\ TokenBefore(Norm(surroundingText), i) = <<"N","o">>
          /\ i + 2 < Len(Norm(surroundingText))
          /\ IsSpace(Norm(surroundingText)[i + 2])
          /\ IsUpper(Norm(surroundingText)[i + 3])

\* a token made of single letters each followed by a period, without the
\* last period: "U.S", "e.g"
RECURSIVE MultiDot(_)
MultiDot(token) ==
    /\ Len(token) >= 3
    /\ IsAlpha(token[1]) /\ token[2] = "."
    /\ IF Len(token) = 3 THEN IsAlpha(token[3]) ELSE MultiDot(SubSeq(token, 3, Len(token)))

\* C9: no sentence is ended after the final period of a multi-dot
\* abbreviation that is followed by whitespace and an upper-case letter; "He
\* lives in the U.S. Government pays." is one sentence.
C9_MultiDotNotSplit ==
    Segmented =>
        /\ \A k \in 1..(Len(sentences) - 1) :
              ~(sentences[k][Len(sentences[k])] = "." /\ MultiDot(ClosingToken(sentences[k])))
        /\ surroundingText = ExUS => sentences = <<ExUS>>

\* C10 as stated: "Wait... What now?" is split before "What".
C10_SplitsBeforeWhat ==
    (Segmented /\ surroundingText = ExWait) =>
        sentences = <<SubSeq(ExWait, 1, 7), SubSeq(ExWait, 9, 17)>>

\* C10 (amended): "Wait... What now?" is not split at the ellipsis, and as
\* the ellipsis is the only mark in front of "What" the whole input is
\* returned as one sentence.
C10_EllipsisKeepsOneSentence ==
    (Segmented /\ surroundingText = ExWait) => sentences = <<ExWait>>

C10_Witness == Segmented /\ surroundingText = ExWait /\ Len(sentences) = 1

\* no character of t is a terminal mark
NoMarks(t) == t # NonString /\ \A k \in DOMAIN t : t[k] \notin {".", "?", "!"}

\* C11 as stated: a text without '.', '?' and '!' yields exactly one sentence,
\* the trimmed input.
C11_OneTrimmedSentence ==
    (Segmented /\ NoMarks(surroundingText)) => sentences = <<trim(surroundingText)>>

\* C11 (amended): a text without '.', '?' and '!' that has a non-whitespace
\* character yields exactly one sentence, the trimmed input with every
\* whitespace run collapsed to one space; an empty or whitespace-only text
\* yields no sentence.
C11_OneNormalizedSentence ==
    (Segmented /\ NoMarks(surroundingText)) =>
        sentences = (IF Norm(surroundingText) = <<>> THEN <<>> ELSE <<Norm(surroundingText)>>)

C11_Witness ==
    /\ Segmented /\ NoMarks(surroundingText)
    /\ Len(sentences) = 1
    /\ Len(sentences[1]) < Len(trim(surroundingText))

\* the sentences of S occur one after the other, without overlap, in text
\* from position `from` on (leftmost occurrences)
RECURSIVE InOrder(_, _, _)
InOrder(S, text, from) ==
    IF S = <<>> THEN TRUE
    ELSE LET at == { k \in from..(Len(text) - Len(Head(S)) + 1) :
                       SubSeq(text, k, k + Len(Head(S)) - 1) = Head(S) }
         IN  at # {} /\ InOrder(Tail(S), text, MinOf(at) + Len(Head(S)))

\* C12: every returned sentence is non-empty, has no whitespace at either
\* end and no two adjacent whitespace characters, the sentences occur in
\* the (normalized) input in the order returned, and empty or non-string
\* input yields the empty sequence.
C12_SentenceSequence ==
    Segmented =>
        /\ \A k \in DOMAIN sentences :
              LET s == sentences[k] IN
              /\ s # <<>>
              /\ ~IsSpace(s[1]) /\ ~IsSpace(s[Len(s)])
              /\ \A j \in 1..(Len(s) - 1) : ~(IsSpace(s[j]) /\ IsSpace(s[j + 1]))
        /\ InOrder(sentences, Norm(surroundingText), 1)
        /\ surroundingText \in {<<>>, NonString} => sentences = <<>>

C12_Witness ==
    /\ Segmented /\ Len(sentences) = 2
    /\ \E j \in 1..(Len(surroundingText) - 2) :
          /\ IsSpace(surroundingText[j]) /\ IsSpace(surroundingText[j + 1])
          /\ ~IsSpace(surroundingText[j + 2])
    /\ IsSpace(surroundingText[Len(surroundingText)])

\* the sentences joined with single spaces
RECURSIVE Join(_)
Join(S) ==
    IF S = <<>> THEN <<>>
    ELSE IF Len(S) = 1 THEN S[1]
    ELSE S[1] \o <<" ">> \o Join(Tail(S))

\* C20: joining the returned sentences with single spaces gives the
\* whitespace-collapsed, trimmed input; every non-final sentence ends with a
\* mark and every non-first sentence begins with an upper-case letter.
C20_NoTextLostOrInvented ==
    (Segmented /\ surroundingText # NonString) =>
        /\ Join(sentences) = Norm(surroundingText)
        /\ \A k \in 1..(Len(sentences) - 1) :
              sentences[k][Len(sentences[k])] \in {".", "?", "!"}
        /\ \A k \in 2..Len(sentences) : IsUpper(sentences[k][1])

C20_Witness ==
    /\ Segmented /\ Len(sentences) = 3
    /\ Len(Join(sentences)) = Len(sentences[1]) + Len(sentences[2]) + Len(sentences[3]) + 2
    /\ Len(surroundingText) > Len(Join(sentences))

(***************************************************************************)
(* background.js: translateWithLLM, building the user message              *)
(***************************************************************************)
\* a || b for string-or-absent operands: '' , null and undefined are falsy
OrElse(a, b) == IF a = Null \/ a = <<>> THEN b ELSE a

\* the replacement text of one match (GetSubstitution of the runtime, for a
\* pattern without capture groups): $$ is '$', $& the match, $` the text in
\* front of the match, $' the text behind it
RECURSIVE getSubstitution(_, _, _, _)
getSubstitution(replacement, matched, front, behind) ==
    IF replacement = <<>> THEN <<>>
    ELSE IF Head(replacement) = "$" /\ Len(replacement) >= 2
              /\ replacement[2] \in {"$", "&", "`", "'"}
         THEN (CASE replacement[2] = "$" -> <<"$">>
                 [] replacement[2] = "&" -> matched
                 [] replacement[2] = "`" -> front
                 [] replacement[2] = "'" -> behind)
              \o getSubstitution(SubSeq(replacement, 3, Len(replacement)), matched, front, behind)
         ELSE <<Head(replacement)>> \o getSubstitution(Tail(replacement), matched, front, behind)

\* the JS index of the first match of a literal pattern at or after JS index
\* `from` (RegExp exec with lastIndex), -1 when there is none
indexOfFrom(str, pattern, from) ==
    LET hits == { i \in from .. (Len(str) - Len(pattern)) :
                    SubSeq(str, i + 1, i + Len(pattern)) = pattern }
    IN  IF hits = {} THEN -1 ELSE CHOOSE i \in hits : \A j \in hits : i <= j

\* str.replace(/pattern/g, replacement) for a literal pattern: the matches
\* are the non-overlapping occurrences from the left, from JS index `from`
RECURSIVE replaceFrom(_, _, _, _)
replaceFrom(str, pattern, replacement, from) ==
    LET position == indexOfFrom(str, pattern, from) IN
    IF position = -1 THEN SubSeq(str, from + 1, Len(str))
    ELSE SubSeq(str, from + 1, position)
         \o getSubstitution(replacement, pattern, SubSeq(str, 1, position),
                             SubSeq(str, position + Len(pattern) + 1, Len(str)))
         \o replaceFrom(str, pattern, replacement, position + Len(pattern))

replaceAll(str, pattern, replacement) == replaceFrom(str, pattern, replacement, 0)

defaultUserMessage == <<"T","r","a","n","s","l","a","t","e",":"," ","{","{","t","e","x","t",
    "}","}","\n","\n","C","o","n","t","e","x","t",":","\n","P","r","e","v","i","o","u","s",
    " ","s","e","n","t","e","n","c","e",":"," ","{","{","p","r","e","v","i","o","u","s","S",
    "e","n","t","e","n","c","e","}","}","\n","N","e","x","t"," ","s","e","n","t","e","n",
    "c","e",":"," ","{","{","n","e","x","t","S","e","n","t","e","n","c","e","}","}">>

PlaceholderText == <<"{","{","t","e","x","t","}","}">>
PlaceholderPrevious == <<"{","{","p","r","e","v","i","o","u","s","S","e","n","t","e","n",
    "c","e","}","}">>
PlaceholderNext == <<"{","{","n","e","x","t","S","e","n","t","e","n","c","e","}","}">>
NoneLiteral == <<"(","n","o","n","e",")">>

\* a variant that fills {{text}} from the sentence found by the resolver
buildUserMessage_fromSentence(settingsUserMessage, ctx) ==
    LET template == OrElse(settingsUserMessage, defaultUserMessage)
        afterText == replaceAll(template, PlaceholderText, OrElse(ctx.selectedSentence, <<>>))
        afterPrevious == replaceAll(afterText, PlaceholderPrevious,
                                    OrElse(ctx.previousSentence, NoneLiteral))
    IN  replaceAll(afterPrevious, PlaceholderNext, OrElse(ctx.nextSentence, NoneLiteral))
\* lines 75-80: the template with the three chained replacements
buildUserMessage(settingsUserMessage, ctx) ==
    LET template == OrElse(settingsUserMessage, defaultUserMessage)
        afterText == replaceAll(template, PlaceholderText, OrElse(ctx.selectedText, <<>>))
        afterPrevious == replaceAll(afterText, PlaceholderPrevious,
                                    OrElse(ctx.previousSentence, NoneLiteral))
    IN  replaceAll(afterPrevious, PlaceholderNext, OrElse(ctx.nextSentence, NoneLiteral))

(***************************************************************************)
(* Inputs of the message building.                                         *)
(***************************************************************************)
TplTwice == <<"{","{","t","e","x","t","}","}"," ","/"," ","{","{","t","e","x","t","}","}">>
TplAll == <<"{","{","p","r","e","v","i","o","u","s","S","e","n","t","e","n","c","e","}","}",
    "|","{","{","t","e","x","t","}","}","|","{","{","n","e","x","t","S","e","n","t","e","n",
    "c","e","}","}">>
TplPlain == <<"T","r","a","n","s","l","a","t","e"," ","i","t">>
TplNextFirst == <<"{","{","n","e","x","t","S","e","n","t","e","n","c","e","}","}","{","{",
    "n","e","x","t","S","e","n","t","e","n","c","e","}","}"," ","{","{","t","e","x","t","}",
    "}">>

Templates == { Null, <<>>, TplTwice, TplAll, TplPlain, TplNextFirst }

\* selections and sentences: absent, plain, with a '$' sequence, and one
\* that spells a placeholder
SelectedTexts == { <<>>, <<"H","i">>, <<"$","&">>, <<"U","S","$","$","5">>, PlaceholderNext }
PreviousSentences == { Null, <<>>, <<"O","n","e",".">>, <<"$","'">> }
NextSentences == { Null, <<"T","w","o",".">> }
SelectedSentences == { <<"H","i"," ","y","o","u",".">>, <<"H","i","!">> }

Contexts ==
    [ selectedText : SelectedTexts, previousSentence : PreviousSentences,
      selectedSentence : SelectedSentences, nextSentence : NextSentences ]

InitMsg ==
    /\ ResolverOff /\ WorkerOff /\ FormOff /\ PageOff /\ PairOff
    /\ buildPc = "idle"
    /\ buildTemplate \in Templates
    /\ buildContext \in Contexts
    /\ userMessage = <<>>

\* translateWithLLM, lines 73-80
BuildMessage ==
    /\ buildPc = "idle"
    /\ buildPc' = "built"
    /\ userMessage' = buildUserMessage(buildTemplate, buildContext)
    /\ UNCHANGED <<buildTemplate, buildContext>>
    /\ UNCHANGED otherThanMessage

NextMsg == BuildMessage
SpecMsg == InitMsg /\ [][NextMsg]_vars

(***************************************************************************)
(* background.js: the onClicked listener, translateWithLLM and the two     *)
(* provider calls; content.js: the showTranslationResult branch of the     *)
(* message listener.  Each run of the listener is a process that advances  *)
(* at its awaits; the `click` field of a message and the `trace` and       *)
(* `overlapped` fields of a run are history, carried for the properties.   *)
(***************************************************************************)
MaxClicks == 2

\* HTTP statuses of the provider: response.ok is status in 200-299
StatusOk == 200
StatusTooManyRequests == 429
responseOk(status) == status >= 200 /\ status <= 299

\* what the provider can answer.  status 0: fetch rejects (network error).
\* body of a 200 answer: "content" has the translation at the expected
\* path, "emptyList" has choices / candidates = [], "noList" lacks the
\* choices / candidates key, "emptyContent" has '' as the text, "notJson"
\* is not JSON
Bodies == {"content", "emptyList", "noList", "emptyContent", "notJson"}
ProviderResponses ==
    { [status |-> 0, body |-> "notJson"], [status |-> StatusTooManyRequests, body |-> "notJson"] }
    \cup [ status : {StatusOk}, body : Bodies ]

NoTranslationReturned == "No translation returned"
Returned(v) == [threw |-> FALSE, value |-> v]
Threw(v) == [threw |-> TRUE, value |-> v]

\* callOpenAIAPI from the point where the fetch settles
callOpenAIAPI(response) ==
    IF response.status = 0 THEN Threw("Failed to fetch")
    ELSE IF ~responseOk(response.status) THEN Threw("OpenAI API error")
    ELSE CASE response.body = "notJson" -> Threw("Unexpected token")
           [] response.body = "noList" -> Threw("Cannot read properties of undefined")
           [] response.body = "emptyList" -> Returned(NoTranslationReturned)
           [] response.body = "emptyContent" -> Returned(NoTranslationReturned)
           [] response.body = "content" -> Returned("Hola")

\* callGeminiAPI from the point where the fetch settles
callGeminiAPI(response) ==
    IF response.status = 0 THEN Threw("Failed to fetch")
    ELSE IF ~responseOk(response.status) THEN Threw("Gemini API error")
    ELSE CASE response.body = "notJson" -> Threw("Unexpected token")
           [] response.body \in {"noList", "emptyList", "emptyContent"}
                -> Returned(NoTranslationReturned)
           [] response.body = "content" -> Returned("Hola")

\* the showTranslationResult messages; "" is an absent field
LoadingMessage(i) ==
    [loading |-> TRUE, error |-> "", translation |-> "", originalText |-> "", click |-> i]
ErrorMessage(i, text) ==
    [loading |-> FALSE, error |-> text, translation |-> "", originalText |-> "", click |-> i]
TranslationMessage(i, text, original) ==
    [loading |-> FALSE, error |-> "", translation |-> text, originalText |-> original, click |-> i]
RequestIssued == [request |-> TRUE]

\* getPopupContent: loading wins, then error, else the two sections
getPopupContent(data) ==
    IF data.loading THEN [state |-> "loading", text |-> "", originalText |-> "", click |-> data.click]
    ELSE IF data.error # ""
         THEN [state |-> "error", text |-> data.error, originalText |-> "", click |-> data.click]
         ELSE [state |-> "translation", text |-> data.translation,
               originalText |-> data.originalText, click |-> data.click]

\* !settings.apiToken is false
tokenConfigured_always(s) == TRUE
tokenConfigured(s) == s.apiToken # ""

Settings == [ apiToken : {"", "sk-1"}, providerType : {"openai", "gemini"} ]
SelectionTexts == {"Hello"}

InitBg ==
    /\ ResolverOff /\ MessageOff /\ FormOff /\ PageOff /\ PairOff
    /\ settings \in Settings
    /\ clicks = <<>>
    /\ tabInbox = <<>>
    /\ shown = NothingShown

Advance(i, pcNew, events) ==
    clicks' = [clicks EXCEPT ![i].pc = pcNew, ![i].trace = @ \o events]

\* the user picks Translate: the listener sends extractContext and awaits
Click(sel) ==
    /\ Len(clicks) < MaxClicks
    /\ clicks' = Append(clicks, [pc |-> "extracting", selectedText |-> sel, trace |-> <<>>,
                                 overlapped |-> FALSE, response |-> [status |-> 0, body |-> "notJson"]])
    /\ UNCHANGED <<settings, tabInbox, shown>>
    /\ UNCHANGED otherThanWorker

\* the extractContext answer arrives: the context object, or nothing
ContextResponse(i, answered) ==
    /\ clicks[i].pc = "extracting"
    /\ Advance(i, IF answered THEN "storage" ELSE "done", <<>>)
    /\ UNCHANGED <<settings, tabInbox, shown>>
    /\ UNCHANGED otherThanWorker

\* sendMessage rejects (no content script in the tab): the catch block sends
\* the error to the same tab, where nobody receives it
ContextRejected(i) ==
    /\ clicks[i].pc = "extracting"
    /\ Advance(i, "done", <<ErrorMessage(i, "Could not establish connection")>>)
    /\ UNCHANGED <<settings, tabInbox, shown>>
    /\ UNCHANGED otherThanWorker

\* a variant that shows the loading state before the settings are validated
StorageResult_loadingFirst(i) ==
    /\ clicks[i].pc = "storage"
    /\ IF tokenConfigured(settings)
       THEN /\ clicks' = [clicks EXCEPT ![i].pc = "fetching",
                            ![i].trace = @ \o <<LoadingMessage(i), RequestIssued>>,
                            ![i].overlapped = \E j \in DOMAIN clicks : clicks[j].pc = "fetching"]
            /\ tabInbox' = Append(tabInbox, LoadingMessage(i))
       ELSE /\ Advance(i, "done", <<LoadingMessage(i), ErrorMessage(i, "API token not configured")>>)
            /\ tabInbox' = tabInbox \o <<LoadingMessage(i), ErrorMessage(i, "API token not configured")>>
    /\ UNCHANGED <<settings, shown>>
    /\ UNCHANGED otherThanWorker

\* translateWithLLM after chrome.storage.local.get: validate the token,
\* build the request, send the loading state, issue the fetch; a missing
\* token throws into the catch block of the listener
StorageResult(i) ==
    /\ clicks[i].pc = "storage"
    /\ IF tokenConfigured(settings)
       THEN /\ clicks' = [clicks EXCEPT ![i].pc = "fetching",
                            ![i].trace = @ \o <<LoadingMessage(i), RequestIssued>>,
                            ![i].overlapped = \E j \in DOMAIN clicks : clicks[j].pc = "fetching"]
            /\ tabInbox' = Append(tabInbox, LoadingMessage(i))
       ELSE /\ Advance(i, "done", <<ErrorMessage(i, "API token not configured")>>)
            /\ tabInbox' = Append(tabInbox, ErrorMessage(i, "API token not configured"))
    /\ UNCHANGED <<settings, shown>>
    /\ UNCHANGED otherThanWorker

\* the fetch settles and the body is read: the provider call returns the
\* translation, which is sent, or throws into the catch block
FetchSettles(i, response) ==
    /\ clicks[i].pc = "fetching"
    /\ \E r \in { IF settings.providerType = "gemini" THEN callGeminiAPI(response)
                                                      ELSE callOpenAIAPI(response) } :
         \E m \in { IF r.threw THEN ErrorMessage(i, r.value)
                               ELSE TranslationMessage(i, r.value, clicks[i].selectedText) } :
            /\ clicks' = [clicks EXCEPT ![i].pc = "done", ![i].trace = @ \o <<m>>,
                                        ![i].response = response]
            /\ tabInbox' = Append(tabInbox, m)
    /\ UNCHANGED <<settings, shown>>
    /\ UNCHANGED otherThanWorker

\* the content script receives the oldest message: showTranslationPopup
ShowTranslationResult ==
    /\ tabInbox # <<>>
    /\ shown' = getPopupContent(Head(tabInbox))
    /\ tabInbox' = Tail(tabInbox)
    /\ UNCHANGED <<settings, clicks>>
    /\ UNCHANGED otherThanWorker

NextBg ==
    \/ \E sel \in SelectionTexts : Click(sel)
    \/ \E i \in DOMAIN clicks, answered \in BOOLEAN : ContextResponse(i, answered)
    \/ \E i \in DOMAIN clicks : ContextRejected(i)
    \/ \E i \in DOMAIN clicks : StorageResult(i)
    \/ \E i \in DOMAIN clicks, response \in ProviderResponses : FetchSettles(i, response)
    \/ ShowTranslationResult

SpecBg == InitBg /\ [][NextBg]_vars

(***************************************************************************)
(* Properties of the translation flow.                                     *)
(***************************************************************************)
Finished(i) == i \in DOMAIN clicks /\ clicks[i].pc = "done"
Requests(i) == { k \in DOMAIN clicks[i].trace : clicks[i].trace[k] = RequestIssued }
MessagesOf(i) == SelectSeq(clicks[i].trace, LAMBDA e : e # RequestIssued)
\* the run got a context and went on to translateWithLLM
Translating(i) ==
    /\ i \in DOMAIN clicks
    /\ \/ clicks[i].pc \in {"storage", "fetching"}
       \/ \E k \in DOMAIN clicks[i].trace :
             clicks[i].trace[k] \in {RequestIssued, ErrorMessage(i, "API token not configured")}
IsLoading(m) == m.loading
IsError(m) == ~m.loading /\ m.error # ""
IsTranslation(m) == ~m.loading /\ m.error = ""

\* the failures of a translation request: no token, HTTP non-OK answer, or
\* a 200 answer without choices / candidates or with an empty list
TokenMissing(i) == Finished(i) /\ Translating(i) /\ settings.apiToken = ""
HttpNotOk(i) == Finished(i) /\ Requests(i) # {} /\ clicks[i].response.status = StatusTooManyRequests
Malformed(i) == Finished(i) /\ Requests(i) # {} /\ clicks[i].response.status = StatusOk
                /\ clicks[i].response.body \in {"noList", "emptyList"}
Failed(i) == TokenMissing(i) \/ HttpNotOk(i) \/ Malformed(i)
LastMessage(i) == MessagesOf(i)[Len(MessagesOf(i))]

\* C14: every failed translation request (missing token, HTTP non-OK,
\* malformed provider response) ends with a showTranslationResult message
\* that carries an error, which the content script renders as the error
\* state of the popup, never as a normal translation.
C14_FailureShowsError ==
    \A i \in DOMAIN clicks : Failed(i) =>
        /\ MessagesOf(i) # <<>>
        /\ IsError(LastMessage(i))
        /\ getPopupContent(LastMessage(i)).state = "error"

\* the failures the code reports: no token, HTTP non-OK, network error,
\* a body that is not JSON, an OpenAI body without the choices key
ReportedFailuresShowError ==
    \A i \in DOMAIN clicks :
        ( \/ TokenMissing(i) \/ HttpNotOk(i)
          \/ (Finished(i) /\ Requests(i) # {} /\ callOpenAIAPI(clicks[i].response).threw
                /\ callGeminiAPI(clicks[i].response).threw) )
        => IsError(LastMessage(i)) /\ getPopupContent(LastMessage(i)).state = "error"

\* C15: each click issues at most one HTTP request to the provider,
\* whatever the outcome of that request, and none when the API token is
\* missing.
C15_NoRetry ==
    \A i \in DOMAIN clicks :
        /\ Cardinality(Requests(i)) <= 1
        /\ settings.apiToken = "" => Requests(i) = {}

\* two finished clicks of one worker, one answered with an HTTP error and one
\* that never got a context: one request and none
C15_Witness ==
    /\ \E i \in DOMAIN clicks : HttpNotOk(i) /\ Cardinality(Requests(i)) = 1
    /\ \E i \in DOMAIN clicks : Finished(i) /\ clicks[i].response.status = 0
                                  /\ Cardinality(Requests(i)) = 1

C15_WitnessNoToken ==
    \E i \in DOMAIN clicks : TokenMissing(i) /\ Requests(i) = {}

\* C17: a click that got a context and has a token sends loading, then
\* issues the request, then sends exactly one terminal message (translation
\* or error) and nothing else; without a token its only message is the
\* error and no loading message is sent.
C17_MessageOrder ==
    \A i \in DOMAIN clicks : Translating(i) =>
        LET trace == clicks[i].trace IN
        IF settings.apiToken # ""
        THEN /\ clicks[i].pc = "storage" => trace = <<>>
             /\ clicks[i].pc = "fetching" => trace = <<LoadingMessage(i), RequestIssued>>
             /\ clicks[i].pc = "done" =>
                   /\ Len(trace) = 3
                   /\ SubSeq(trace, 1, 2) = <<LoadingMessage(i), RequestIssued>>
                   /\ trace[3] # RequestIssued
                   /\ IsError(trace[3]) \/ IsTranslation(trace[3])
        ELSE /\ clicks[i].pc = "storage" => trace = <<>>
             /\ clicks[i].pc = "done" => Len(trace) = 1 /\ trace[1] # RequestIssued
                                         /\ IsError(trace[1])

\* one click ended with a translation after its loading message, another
\* with an error after its loading message
C17_Witness ==
    \E i, j \in DOMAIN clicks :
        /\ Finished(i) /\ Finished(j)
        /\ Len(clicks[i].trace) = 3 /\ IsTranslation(clicks[i].trace[3])
        /\ Len(clicks[j].trace) = 3 /\ IsError(clicks[j].trace[3])

C17_WitnessNoToken ==
    \E i \in DOMAIN clicks : TokenMissing(i) /\ Len(clicks[i].trace) = 1

\* C18: when two requests were in flight at the same time and every run
\* has finished and every message is delivered, the popup shows the result
\* of the most recently triggered click.
C18_LatestRequestShown ==
    ( /\ Len(clicks) >= 2
      /\ \A i \in DOMAIN clicks : Finished(i)
      /\ clicks[Len(clicks)].overlapped
      /\ tabInbox = <<>> )
    => shown.click = Len(clicks) /\ shown.state \in {"translation", "error"}

(***************************************************************************)
(* popup/popup.js: the settings form, its provider select and loadSettings *)
(***************************************************************************)
PROVIDER_DEFAULTS ==
    [ openai |-> [ baseUrl |-> "https://api.openai.com", model |-> "gpt-4" ],
      gemini |-> [ baseUrl |-> "https://generativelanguage.googleapis.com",
                   model |-> "gemini-2.0-flash" ] ]
Providers == DOMAIN PROVIDER_DEFAULTS

otherProvider(provider) == IF provider = "openai" THEN "gemini" ELSE "openai"

\* a variant that always takes the model of the new provider
modelAfterChange_overwrite(provider, model) == PROVIDER_DEFAULTS[provider].model
\* lines 45-49: the model field after a provider change
modelAfterChange(provider, model) ==
    IF model = "" \/ model = PROVIDER_DEFAULTS[otherProvider(provider)].model
    THEN PROVIDER_DEFAULTS[provider].model
    ELSE model

\* what the user can have in the fields, and what storage can hold
ModelNames == {"", "gpt-4", "gemini-2.0-flash", "my-model"}
BaseUrls == {"", "https://proxy.example", "https://api.openai.com"}
StoredSettings == [ providerType : Providers \cup {""}, baseUrl : BaseUrls, model : ModelNames ]

Fields == [ provider |-> providerSelect, baseUrl |-> baseUrlInput, model |-> modelInput ]
FieldsAfter == [ provider |-> providerSelect', baseUrl |-> baseUrlInput', model |-> modelInput' ]

\* the form as parsed from the page, before loadSettings has run
InitForm ==
    /\ ResolverOff /\ MessageOff /\ WorkerOff /\ PageOff /\ PairOff
    /\ formPc = "parsed"
    /\ providerSelect \in Providers
    /\ baseUrlInput = "" /\ modelInput = ""
    /\ placeholders = [ baseUrl |-> "", model |-> "" ]
    /\ formEvent = "none" /\ formBefore = NoFields
    /\ formTyped = [ provider |-> providerSelect, baseUrl |-> "", model |-> "" ]

\* loadSettings once chrome.storage.local.get has resolved
LoadSettings(result) ==
    /\ formPc = "parsed"
    /\ formPc' = "loaded"
    /\ providerSelect' = IF result.providerType # "" THEN result.providerType ELSE providerSelect
    /\ baseUrlInput' = IF result.baseUrl # "" THEN result.baseUrl
                                              ELSE PROVIDER_DEFAULTS[providerSelect'].baseUrl
    /\ modelInput' = IF result.model # "" THEN result.model
                                          ELSE PROVIDER_DEFAULTS[providerSelect'].model
    /\ placeholders' = PROVIDER_DEFAULTS[providerSelect']
    /\ formEvent' = "load" /\ formBefore' = Fields /\ formTyped' = FieldsAfter
    /\ UNCHANGED otherThanForm

\* the user picks the other option of the select: the change listener
ChangeProvider(provider) ==
    /\ provider # providerSelect
    /\ providerSelect' = provider
    /\ baseUrlInput' = PROVIDER_DEFAULTS[provider].baseUrl
    /\ placeholders' = PROVIDER_DEFAULTS[provider]
    /\ modelInput' = modelAfterChange(provider, modelInput)
    /\ formEvent' = "change" /\ formBefore' = Fields
    /\ UNCHANGED <<formPc, formTyped>>
    /\ UNCHANGED otherThanForm

\* the user edits the Model field
TypeModel(value) ==
    /\ value # modelInput
    /\ modelInput' = value
    /\ UNCHANGED <<formPc, providerSelect, baseUrlInput, placeholders>>
    /\ formEvent' = "typeModel" /\ formBefore' = Fields /\ formTyped' = FieldsAfter
    /\ UNCHANGED otherThanForm

\* the user edits the Base URL field
TypeBaseUrl(value) ==
    /\ value # baseUrlInput
    /\ baseUrlInput' = value
    /\ UNCHANGED <<formPc, providerSelect, modelInput, placeholders>>
    /\ formEvent' = "typeBaseUrl" /\ formBefore' = Fields /\ formTyped' = FieldsAfter
    /\ UNCHANGED otherThanForm

NextForm ==
    \/ \E result \in StoredSettings : LoadSettings(result)
    \/ \E provider \in Providers : ChangeProvider(provider)
    \/ \E value \in ModelNames : TypeModel(value)
    \/ \E value \in BaseUrls : TypeBaseUrl(value)

SpecForm == InitForm /\ [][NextForm]_vars

(***************************************************************************)
(* Properties of the settings form.                                        *)
(***************************************************************************)
DefaultModels == { PROVIDER_DEFAULTS[p].model : p \in Providers }
CustomModel(m) == m # "" /\ m \notin DefaultModels
TheOther(p) == CHOOSE q \in Providers : q # p

\* C16: after a change of the Provider select the Base URL field holds the
\* new provider's default URL whatever it held before; the Model field
\* holds the new provider's default if it was empty or the other
\* provider's default, and its old value otherwise; so through any run of
\* provider changes a custom model stays, and a default model in the field
\* is the default of the selected provider.
C16_ProviderChange ==
    formEvent = "change" =>
        /\ providerSelect # formBefore.provider
        /\ baseUrlInput = PROVIDER_DEFAULTS[providerSelect].baseUrl
        /\ modelInput = ( IF formBefore.model = ""
                             \/ formBefore.model = PROVIDER_DEFAULTS[TheOther(providerSelect)].model
                          THEN PROVIDER_DEFAULTS[providerSelect].model
                          ELSE formBefore.model )
        /\ CustomModel(formTyped.model) => modelInput = formTyped.model
        /\ modelInput \in DefaultModels => modelInput = PROVIDER_DEFAULTS[providerSelect].model

\* a provider change on a form with a custom URL and a custom model
C16_Witness ==
    /\ formEvent = "change"
    /\ formBefore.baseUrl = "https://proxy.example"
    /\ formBefore.model = "my-model"
    /\ modelInput = "my-model"
    /\ baseUrlInput = PROVIDER_DEFAULTS[providerSelect].baseUrl

(***************************************************************************)
(* content.js: showTranslationPopup on the page.  An element is known by   *)
(* its position in pageElements; every element has the id                  *)
(* 'deep-translate-popup'.                                                 *)
(***************************************************************************)
MaxMessages == 3

PopupMessages ==
    { LoadingMessage(0), ErrorMessage(0, "Failed to fetch"), TranslationMessage(0, "Hola", "Hello") }

Attached == { n \in DOMAIN pageElements : pageElements[n].attached }

\* document.getElementById('deep-translate-popup'): the first element of
\* the page with that id, 0 for null
getElementById(attached) ==
    IF attached = {} THEN 0 ELSE CHOOSE n \in attached : \A m \in attached : n <= m

\* element.remove() for each element of a set
Remove(elements, gone) ==
    [ n \in DOMAIN elements |-> [elements[n] EXCEPT !.attached = @ /\ n \notin gone] ]

\* a variant in which closePopup looks the popup up by its id
closePopupTarget_byId(listener, attached) == getElementById(attached)
\* the element closePopup works on: the `popup` of its own closure
closePopupTarget(listener, attached) == listener

InitPopup ==
    /\ ResolverOff /\ MessageOff /\ WorkerOff /\ FormOff /\ PairOff
    /\ pageElements = <<>>
    /\ pageTimers = {}
    /\ pageListeners = {}
    /\ pageLast = NoMessage
    /\ pageFirings = {}

\* a showTranslationResult message arrives: showTranslationPopup(data)
showTranslationPopup(data) ==
    /\ Len(pageElements) < MaxMessages
    /\ LET existingPopup == getElementById(Attached)
           popup == Len(pageElements) + 1
       IN  /\ pageElements' = Append(Remove(pageElements, {existingPopup}),
                                     [content |-> getPopupContent(data), attached |-> TRUE])
           /\ pageTimers' = pageTimers \cup {popup}
    /\ pageLast' = data
    /\ UNCHANGED <<pageListeners, pageFirings>>
    /\ UNCHANGED otherThanPage

\* the oldest pending timer fires: closePopup is registered on document
TimerFires ==
    /\ pageTimers # {}
    /\ LET popup == CHOOSE n \in pageTimers : \A m \in pageTimers : n <= m
       IN  /\ pageTimers' = pageTimers \ {popup}
           /\ pageListeners' = pageListeners \cup {popup}
    /\ UNCHANGED <<pageElements, pageLast, pageFirings>>
    /\ UNCHANGED otherThanPage

\* a click event reaches document: every registered closePopup whose popup
\* does not contain the target removes its target element and itself
DocumentClick(inside, elements) ==
    LET firing == pageListeners \ {inside}
        attached == { n \in DOMAIN elements : elements[n].attached }
        hits == { [listener |-> l, target |-> closePopupTarget(l, attached),
                   displayed |-> getElementById(attached)] : l \in firing }
    IN  /\ pageElements' = Remove(elements, { h.target : h \in hits })
        /\ pageListeners' = pageListeners \cap {inside}
        /\ pageFirings' = pageFirings \cup hits

\* the user clicks the close button of the displayed popup: its handler
\* removes the popup, then the event bubbles to document
ClickClose(popup) ==
    /\ popup \in Attached
    /\ DocumentClick(popup, Remove(pageElements, {popup}))
    /\ UNCHANGED <<pageTimers, pageLast>>
    /\ UNCHANGED otherThanPage

\* the user clicks elsewhere inside the displayed popup
ClickInside(popup) ==
    /\ popup \in Attached
    /\ DocumentClick(popup, pageElements)
    /\ UNCHANGED <<pageTimers, pageLast>>
    /\ UNCHANGED otherThanPage

\* the user clicks on the page outside the popup
ClickOutside ==
    /\ DocumentClick(0, pageElements)
    /\ UNCHANGED <<pageTimers, pageLast>>
    /\ UNCHANGED otherThanPage

NextPopup ==
    \/ \E data \in PopupMessages : showTranslationPopup(data)
    \/ TimerFires
    \/ \E popup \in DOMAIN pageElements : ClickClose(popup)
    \/ \E popup \in DOMAIN pageElements : ClickInside(popup)
    \/ ClickOutside

SpecPopup == InitPopup /\ [][NextPopup]_vars

(***************************************************************************)
(* Properties of the popup.                                                *)
(***************************************************************************)
\* C19: the page holds at most one popup element; the one it holds is the
\* one made for the most recently received message and shows that
\* message; and a closePopup listener that ran while the popup of a later
\* message was displayed did not remove that popup.
C19_OnePopup ==
    /\ Cardinality(Attached) <= 1
    /\ \A n \in Attached :
          n = Len(pageElements) /\ pageElements[n].content = getPopupContent(pageLast)
    /\ \A h \in pageFirings :
          (h.displayed # 0 /\ h.displayed # h.listener) => h.target # h.displayed

\* the listener of an earlier popup ran on a click outside while the
\* popup of the latest message was displayed, and that popup is still there
C19_Witness ==
    /\ Len(pageElements) >= 2
    /\ Attached = {Len(pageElements)}
    /\ \E h \in pageFirings : h.listener < h.displayed /\ h.displayed = Len(pageElements)

(***************************************************************************)
(* Properties of the message building.                                     *)
(***************************************************************************)
\* a value is absent when it is null, undefined or empty
Absent(v) == v = Null \/ v = <<>>
ValueOrNone(v) == IF Absent(v) THEN NoneLiteral ELSE v

\* every placeholder occurrence of the template replaced by its value, all
\* three at once: the placeholders are found in the template only
Placeholder == [ selectedText |-> PlaceholderText, previousSentence |-> PlaceholderPrevious,
                 nextSentence |-> PlaceholderNext ]
PlaceholderAt(tpl, i, f) ==
    i + Len(Placeholder[f]) <= Len(tpl) /\ SubSeq(tpl, i + 1, i + Len(Placeholder[f])) = Placeholder[f]
RECURSIVE Substituted(_, _, _)
Substituted(tpl, ctx, from) ==
    LET hits == { i \in from .. (Len(tpl) - 1) :
                    \E f \in DOMAIN Placeholder : PlaceholderAt(tpl, i, f) }
    IN  IF hits = {} THEN SubSeq(tpl, from + 1, Len(tpl))
        ELSE LET i == MinOf(hits)
                 f == CHOOSE g \in DOMAIN Placeholder : PlaceholderAt(tpl, i, g)
             IN  SubSeq(tpl, from + 1, i) \o ValueOrNone(ctx[f])
                 \o Substituted(tpl, ctx, i + Len(Placeholder[f]))

TemplateInUse == IF Absent(buildTemplate) THEN defaultUserMessage ELSE buildTemplate

\* C13: in the built user message every occurrence of {{text}},
\* {{previousSentence}} and {{nextSentence}} of the template is replaced by
\* the corresponding context value, and by "(none)" when that value is
\* absent, for all three placeholders.
C13_PlaceholdersReplaced ==
    buildPc = "built" => userMessage = Substituted(TemplateInUse, buildContext, 0)

\* the same with plain values only: no '$' and no placeholder inside a value
PlainValue(v) == Absent(v) \/ (\A k \in DOMAIN v : v[k] \notin {"$", "{"})
PlainValuesReplaced ==
    ( /\ buildPc = "built"
      /\ buildContext.selectedText # <<>>
      /\ \A f \in {"selectedText", "previousSentence", "nextSentence"} :
            PlainValue(buildContext[f]) )
    => userMessage = Substituted(TemplateInUse, buildContext, 0)

(***************************************************************************)
(* background.js: translateWithLLM run twice with the same settings, on    *)
(* two contexts that agree on everything but selectedSentence.  Each run   *)
(* builds its request (lines 70-80) and, once the provider has answered,   *)
(* sends its result (lines 114-118).                                       *)
(***************************************************************************)
Runs == {1, 2}

defaultSystemPrompt ==
    "You are a professional translator. Translate the following text to English accurately and naturally, preserving the original meaning and tone."

\* settings.systemPrompt || defaultSystemPrompt; "" is an absent setting
systemPromptOf(s) == IF s.systemPrompt = "" THEN defaultSystemPrompt ELSE s.systemPrompt

PairSettings == [ systemPrompt : {"", "Translate to French."}, userMessage : Templates ]
PairSentences == SelectedSentences \cup {<<>>}
NoRequest == [ systemPrompt |-> "", userMessage |-> <<>> ]
NoResult == [ translation |-> "", originalText |-> <<>> ]

InitPair ==
    /\ ResolverOff /\ MessageOff /\ WorkerOff /\ FormOff /\ PageOff
    /\ pairSettings \in PairSettings
    /\ \E ctx \in Contexts, sentence \in PairSentences :
          /\ sentence # ctx.selectedSentence
          /\ pairContexts = <<ctx, [ctx EXCEPT !.selectedSentence = sentence]>>
    /\ pairPc = [ k \in Runs |-> "start" ]
    /\ pairRequests = [ k \in Runs |-> NoRequest ]
    /\ pairResults = [ k \in Runs |-> NoResult ]

\* translateWithLLM, lines 70-80: the system prompt and the user message
BuildRequest(k) ==
    /\ pairPc[k] = "start"
    /\ pairPc' = [pairPc EXCEPT ![k] = "requested"]
    /\ pairRequests' = [pairRequests EXCEPT ![k] =
            [ systemPrompt |-> systemPromptOf(pairSettings),
              userMessage |-> buildUserMessage(pairSettings.userMessage, pairContexts[k]) ]]
    /\ UNCHANGED <<pairSettings, pairContexts, pairResults>>
    /\ UNCHANGED otherThanPair

\* translateWithLLM, lines 114-118: the provider returned `translation`
SendResult(k, translation) ==
    /\ pairPc[k] = "requested"
    /\ pairPc' = [pairPc EXCEPT ![k] = "sent"]
    /\ pairResults' = [pairResults EXCEPT ![k] =
            [ translation |-> translation, originalText |-> pairContexts[k].selectedText ]]
    /\ UNCHANGED <<pairSettings, pairContexts, pairRequests>>
    /\ UNCHANGED otherThanPair

NextPair ==
    \/ \E k \in Runs : BuildRequest(k)
    \/ \E k \in Runs, translation \in {"Hola", NoTranslationReturned} : SendResult(k, translation)

SpecPair == InitPair /\ [][NextPair]_vars

(***************************************************************************)
(* Properties of the pair of runs.                                         *)
(***************************************************************************)
AgreeButSentence(c, d) ==
    /\ c.selectedText = d.selectedText
    /\ c.previousSentence = d.previousSentence
    /\ c.nextSentence = d.nextSentence
    /\ c.selectedSentence # d.selectedSentence
PairTemplate == IF Absent(pairSettings.userMessage) THEN defaultUserMessage
                                                     ELSE pairSettings.userMessage
HasTextPlaceholder(tpl) ==
    \E i \in 0 .. (Len(tpl) - Len(PlaceholderText)) :
        SubSeq(tpl, i + 1, i + Len(PlaceholderText)) = PlaceholderText

====
